---- MODULE Spec2Model ----
(***************************************************************************)
(* The three diagnostic scripts of the repository as one state machine:    *)
(*   examine_excel.py     entry point, examine_excel() and its handler     *)
(*   examine_soccer.py    the flat script on the "soccer" sheet            *)
(*   check_worksheets.py  the loop over all sheets                         *)
(* A behaviour is one run of one script on one workbook file (and, when    *)
(* the input allows it, a second run on the same file).                    *)
(***************************************************************************)
EXTENDS Integers, Sequences, FiniteSets, TLC

VARIABLES
    script,        \* which script runs: "excel", "soccer" or "check"
    env,           \* the file system: which paths exist, whether the file parses
    wb,            \* the workbook file on disk (never written by the scripts)
    run,           \* 1 for the first run of the script, 2 for the second
    prev,          \* what the first run reported (empty during the first run)
    pc,            \* position in the script
    error,         \* the exception raised, "none" while there is none
    failed_at,     \* the position where the exception was raised
    exit_code,     \* -1 while the process runs
    diag,          \* diagnostics printed: not-found message, error message, traceback
    file_path,     \* examine_excel.py: the path chosen (1 primary, 2 and 3 fallbacks, 0 none)
    calls,         \* examine_excel.py: how many times examine_excel was called
    ws,            \* index in wb.sheets of the worksheet in use, 0 before it is set
    er,            \* the worksheet's cell store: largest row holding a cell (0: no cell)
    ec,            \* the worksheet's cell store: largest column holding a cell
    headers,       \* the headers list
    row,           \* loop variable of the "today" loop
    current_day,   \* datetime.now().day as read by this run
    today_count,   \* today_count
    date_str,      \* the value of the date cell last read
    knull,         \* examine_soccer.py: index in NullCols of the column being analysed
    steps,         \* the report sections completed so far, in order
    report         \* the values printed

vars == <<script, env, wb, run, prev, pc, error, failed_at, exit_code, diag,
          file_path, calls, ws, er, ec, headers, row, current_day, today_count,
          date_str, knull, steps, report>>

input == <<script, env, wb>>

----------------------------------------------------------------------------
(* Bounds of the model.                                                    *)

MaxRows == 3
MaxCols == 6
MaxSheets == 2
MaxLen == 3
WideRows == 7
WideCols == 51
NullRows == 7

----------------------------------------------------------------------------
(* Python values and the library functions the scripts call.               *)

Min(a, b) == IF a < b THEN a ELSE b
Max(a, b) == IF a > b THEN a ELSE b

\* range(a, b)
Range(a, b) == a .. (b - 1)

\* Cell values: None, a str (a sequence of characters), an int.
None == [t |-> "none"]
Text(s) == [t |-> "str", s |-> s]
Num(n) == [t |-> "int", n |-> n]

DigitChars == <<"0", "1", "2", "3", "4", "5", "6", "7", "8", "9">>
IsDigit(c) == \E i \in 1..10 : DigitChars[i] = c
DigitVal(c) == (CHOOSE i \in 1..10 : DigitChars[i] = c) - 1
IsSpace(c) == c \in {" ", "\t"}

\* str(n) for an int n
RECURSIVE Digits(_)
Digits(n) ==
    IF n < 0 THEN <<"-">> \o Digits(0 - n)
    ELSE IF n < 10 THEN <<DigitChars[n + 1]>>
    ELSE Digits(n \div 10) \o <<DigitChars[(n % 10) + 1]>>

\* str(value) of a cell value that passed the truth test
PyStr(v) == IF v.t = "str" THEN v.s ELSE IF v.t = "int" THEN Digits(v.n) ELSE <<"N", "o", "n", "e">>

\* Python truth value of a cell value: `if date_str:`, `if val:`
Truthy(v) ==
    IF v.t = "none" THEN FALSE
    ELSE IF v.t = "str" THEN v.s # <<>>
    ELSE v.n # 0

\* s.split(sep) for a one-character separator: the list of pieces
RECURSIVE Split(_, _)
Split(s, sep) ==
    IF \A i \in 1..Len(s) : s[i] # sep THEN <<s>>
    ELSE LET i == CHOOSE j \in 1..Len(s) : s[j] = sep /\ \A k \in 1..(j - 1) : s[k] # sep
         IN  <<SubSeq(s, 1, i - 1)>> \o Split(SubSeq(s, i + 1, Len(s)), sep)

\* s.strip()
RECURSIVE LStrip(_)
LStrip(s) == IF s # <<>> /\ IsSpace(Head(s)) THEN LStrip(Tail(s)) ELSE s
RECURSIVE RStrip(_)
RStrip(s) == IF s # <<>> /\ IsSpace(s[Len(s)]) THEN RStrip(SubSeq(s, 1, Len(s) - 1)) ELSE s
Strip(s) == RStrip(LStrip(s))

\* The digits part of an int literal: digits, single underscores between digits.
RECURSIVE DigitsValue(_, _)
DigitsValue(s, acc) ==
    IF s = <<>> THEN [ok |-> TRUE, v |-> acc]
    ELSE IF IsDigit(Head(s)) THEN DigitsValue(Tail(s), acc * 10 + DigitVal(Head(s)))
    ELSE IF Head(s) = "_" /\ Len(s) >= 2 /\ IsDigit(s[2]) THEN DigitsValue(Tail(s), acc)
    ELSE [ok |-> FALSE, v |-> 0]

\* int(s): surrounding whitespace stripped, an optional sign, then the digits.
\* ok = FALSE stands for ValueError.
PyInt(s) ==
    LET t == Strip(s)
        signed == t # <<>> /\ Head(t) \in {"+", "-"}
        body == IF signed THEN Tail(t) ELSE t
        d == IF body # <<>> /\ IsDigit(Head(body)) THEN DigitsValue(body, 0)
             ELSE [ok |-> FALSE, v |-> 0]
    IN  IF d.ok /\ signed /\ Head(t) = "-" THEN [ok |-> TRUE, v |-> 0 - d.v] ELSE d

\* list[i] with a Python index i >= 0: ok = FALSE stands for IndexError.
ListGet(list, i) ==
    IF i + 1 \in 1..Len(list) THEN [ok |-> TRUE, v |-> list[i + 1]]
    ELSE [ok |-> FALSE, v |-> None]

\* sorted(S) for a set of integers
RECURSIVE Sorted(_)
Sorted(S) ==
    IF S = {} THEN <<>>
    ELSE LET m == CHOOSE x \in S : \A y \in S : x <= y
         IN  <<m>> \o Sorted(S \ {m})

----------------------------------------------------------------------------
(* The workbook file and the worksheet object.                             *)
(*                                                                         *)
(* A sheet of the file has `rows` x `cols` populated cells (0 x 0: no      *)
(* populated cell). Row 1 holds the headers, column 5 the date cells,      *)
(* columns 6 and up the probabilities, which are empty in the rows of      *)
(* odds_null; columns 1 to 4 hold names.                                   *)

HeaderText(c) == Text(<<"h">> \o Digits(c))
NameText == Text(<<"t">>)

\* ws.cell(r, c).value
CellValue(sheet, r, c) ==
    IF r < 1 \/ r > sheet.rows \/ c < 1 \/ c > sheet.cols THEN None
    ELSE IF r = 1 THEN HeaderText(c)
    ELSE IF c = 5 THEN sheet.date[r]
    ELSE IF c >= 6 THEN (IF r \in sheet.odds_null THEN None ELSE Num(1))
    ELSE NameText

Sheet == wb.sheets[ws]

\* ws.max_row and ws.max_column: the largest row and column of the worksheet's
\* cell store, 1 when the store holds no cell.
max_row == IF er = 0 THEN 1 ELSE er
max_column == IF ec = 0 THEN 1 ELSE ec

\* wb.active
Active(book) == book.active

\* wb[title]: the index of the sheet with that title, 0 for KeyError
SheetByTitle(book, title) ==
    IF \E i \in 1..Len(book.sheets) : book.sheets[i].title = title
    THEN CHOOSE i \in 1..Len(book.sheets) : book.sheets[i].title = title
    ELSE 0

----------------------------------------------------------------------------
(* The inputs a behaviour starts from.                                     *)

Days == {1, 5, 15}

Alphabet == {"1", "5", ".", " ", "\t", "a"}
Texts(n) == UNION {[1..k -> Alphabet] : k \in 0..n}
Examples ==
    { <<"5", ".", "0", "3">>, <<"1", "5", ".", "0", "3">>, <<"a", "b", "c">>,
      <<"1", "4", ".", "0", "3", " ", "1", "8", ":", "3", "0">>,
      <<"5", "\t", "1", "8", ":", "3", "0">>, <<"-", "5">>, <<"+", "5">>,
      <<"5", "_", "1">>, <<"0", "5", " ", "x">> }

\* Every date cell value the model tries.
DateCells == {None, Num(0), Num(5), Num(15)} \cup {Text(s) : s \in Texts(MaxLen) \cup Examples}
\* The date cell values of the sheets with several data rows.
SmallCells == {None, Text(<<"5", ".", "0", "3">>), Text(<<"a", "b", "c">>)}

MkSheet(title, rows, cols, date, odds_null) ==
    [title |-> title, rows |-> rows, cols |-> cols, date |-> date, odds_null |-> odds_null]

EmptySheet(title) == MkSheet(title, 0, 0, <<>>, {})

\* A sheet whose data rows all hold a date cell and probabilities.
PlainSheet(title, rows, cols) ==
    MkSheet(title, rows, cols,
            [r \in 2..rows |-> IF cols >= 5 THEN Text(<<"5", ".", "0", "3">>) ELSE None],
            IF cols >= 6 THEN {} ELSE 2..rows)

\* The contents a sheet of r x c cells can have: the date cells exist from
\* column 5 on, the probabilities from column 6 on.
DateColumns(r, c, cells) == IF c >= 5 THEN [2..r -> cells] ELSE {[x \in 2..r |-> None]}
NullRowSets(r, c) == IF c >= 6 THEN SUBSET (2..r) ELSE {2..r}

\* Sheets of at most MaxRows x MaxCols cells with every content of the data rows.
SmallSheets(title) ==
    {EmptySheet(title)} \cup
    UNION { { MkSheet(title, r, c, d, n) : d \in DateColumns(r, c, SmallCells), n \in NullRowSets(r, c) } :
            r \in 1..MaxRows, c \in 1..MaxCols }

\* Sheets of up to WideRows x WideCols cells whose data rows are all alike.
WideSheets(title) ==
    UNION { { MkSheet(title, r, c, [x \in 2..r |-> IF c >= 5 THEN k[1] ELSE None],
                      IF c >= 6 /\ k[2] THEN {} ELSE 2..r) :
              k \in { <<Text(<<"5", ".", "0", "3">>), TRUE>>, <<Text(<<" ">>), FALSE>> } } :
            r \in 1..WideRows, c \in 1..WideCols }

\* Sheets with one data row holding any date cell.
DateSheets(title) == { MkSheet(title, 2, 5, [x \in 2..2 |-> d], {2}) : d \in DateCells }

\* Sheets of up to NullRows rows with any set of rows lacking the probabilities.
NullSheets(title) ==
    UNION { { MkSheet(title, r, 7, [x \in 2..r |-> None], n) : n \in SUBSET (2..r) } : r \in 1..NullRows }

\* Sheets without data of interest, for the workbooks of several sheets.
TinySheets(title) ==
    {EmptySheet(title)} \cup { PlainSheet(title, r, c) : r \in 1..MaxRows, c \in {1, MaxCols} }

Titles == <<"soccer", "basketball", "tennis", "hockey", "rugby">>

Book(s) == [sheets |-> <<s>>, active |-> 1]

\* Workbooks of 1 to MaxSheets sheets, titled by position.
TinyBooks ==
    UNION { { [sheets |-> [i \in 1..n |-> [f[i] EXCEPT !.title = Titles[i]]], active |-> 1] :
              f \in [1..n -> TinySheets("")] } : n \in 1..MaxSheets }

Paths == 1..3
AllThere == [i \in Paths |-> TRUE]
Env(exists, valid, runs) == [exists |-> exists, valid |-> valid, runs |-> runs]
Input(s, e, b) == [script |-> s, env |-> e, wb |-> b]

PlainBook == Book(PlainSheet("soccer", 2, MaxCols))
OtherBook == [sheets |-> <<EmptySheet("basketball"), PlainSheet("soccer", 2, MaxCols)>>, active |-> 1]
NoSoccerBook == Book(PlainSheet("Sheet1", 2, MaxCols))

\* Every file system, on one workbook.
InputsEnv ==
    { Input(s, Env(x, v, 1), PlainBook) :
        s \in {"excel", "soccer", "check"}, x \in [Paths -> BOOLEAN], v \in BOOLEAN }
\* Every small sheet, run twice.
InputsSmall ==
    { Input(s, Env(AllThere, TRUE, 2), b) :
        s \in {"excel", "soccer"},
        b \in {Book(x) : x \in SmallSheets("soccer")} \cup {OtherBook, NoSoccerBook} }
InputsCheck == { Input("check", Env(AllThere, TRUE, 2), b) : b \in TinyBooks }
InputsWide ==
    { Input(s, Env(AllThere, TRUE, 1), Book(x)) : s \in {"excel", "soccer"}, x \in WideSheets("soccer") }
InputsDate ==
    { Input(s, Env(AllThere, TRUE, 1), Book(x)) : s \in {"excel", "soccer"}, x \in DateSheets("soccer") }
InputsNull == { Input("soccer", Env(AllThere, TRUE, 1), Book(x)) : x \in NullSheets("soccer") }

Inputs == InputsEnv \cup InputsSmall \cup InputsCheck \cup InputsWide \cup InputsDate \cup InputsNull

EmptyReport ==
    [title |-> "", rows |-> 0, cols |-> 0, headers |-> <<>>, samples |-> <<>>, mapping |-> <<>>,
     total |-> 0, day |-> 0, today |-> 0, nulls |-> <<>>, nsheets |-> 0, sheets |-> <<>>]

NoRun == [report |-> EmptyReport, steps |-> <<>>, exit_code |-> -1, error |-> "none"]

Init ==
    /\ \E i \in Inputs : script = i.script /\ env = i.env /\ wb = i.wb
    /\ run = 1
    /\ prev = NoRun
    /\ pc = "start"
    /\ error = "none"
    /\ failed_at = "none"
    /\ exit_code = -1
    /\ diag = <<>>
    /\ file_path = 0
    /\ calls = 0
    /\ ws = 0
    /\ er = 0
    /\ ec = 0
    /\ headers = <<>>
    /\ row = 0
    /\ current_day = 0
    /\ today_count = 0
    /\ date_str = None
    /\ knull = 0
    /\ steps = <<>>
    /\ report = EmptyReport

----------------------------------------------------------------------------
(* Control flow: completing a section, raising, exiting.                   *)

\* The positions inside the try block of examine_excel.py's entry point.
TrySteps == {"call", "info", "headers", "samples", "mapping", "stats", "clock", "today", "summary"}

Ok(next, step) ==
    /\ pc' = next
    /\ steps' = Append(steps, step)
    /\ UNCHANGED <<error, failed_at, exit_code, diag>>

Goto(next) ==
    /\ pc' = next
    /\ UNCHANGED <<steps, error, failed_at, exit_code, diag>>

\* An exception e is raised here: examine_excel.py's handler catches what is
\* raised inside its try block; anything else ends the process with a traceback
\* and exit code 1.
Fail(e) ==
    /\ error' = e
    /\ failed_at' = pc
    /\ UNCHANGED steps
    /\ IF script = "excel" /\ pc \in TrySteps
       THEN pc' = "except" /\ UNCHANGED <<exit_code, diag>>
       ELSE pc' = "exit" /\ exit_code' = 1 /\ diag' = Append(diag, "traceback")

\* The script runs off its end.
Finish(step) ==
    /\ pc' = "exit"
    /\ exit_code' = 0
    /\ steps' = Append(steps, step)
    /\ UNCHANGED <<error, failed_at, diag>>

----------------------------------------------------------------------------
(* examine_excel.py: the entry point.                                      *)

\* The path search: the primary path, then the fallbacks in order.
ResolvePathNoExit(exists) ==
    IF exists[1] THEN [found |-> TRUE, path |-> 1, searched |-> FALSE]
    ELSE IF exists[2] THEN [found |-> TRUE, path |-> 2, searched |-> TRUE]
    ELSE IF exists[3] THEN [found |-> TRUE, path |-> 3, searched |-> TRUE]
    ELSE [found |-> TRUE, path |-> 1, searched |-> TRUE]

ResolvePath(exists) ==
    IF exists[1] THEN [found |-> TRUE, path |-> 1, searched |-> FALSE]
    ELSE IF exists[2] THEN [found |-> TRUE, path |-> 2, searched |-> TRUE]
    ELSE IF exists[3] THEN [found |-> TRUE, path |-> 3, searched |-> TRUE]
    ELSE [found |-> FALSE, path |-> 1, searched |-> TRUE]

ExcelMain ==
    /\ script = "excel" /\ pc = "start"
    /\ LET r == ResolvePath(env.exists)
           said == IF r.searched THEN <<"not found at primary path">> ELSE <<>>
       IN  /\ file_path' = r.path
           /\ IF r.found
              THEN /\ pc' = "call"
                   /\ diag' = diag \o said
                   /\ UNCHANGED exit_code
              ELSE /\ pc' = "exit"
                   /\ diag' = diag \o said
                   /\ exit_code' = 1
    /\ calls' = 0
    /\ UNCHANGED <<input, run, prev, error, failed_at, steps, report,
                   ws, er, ec, headers, row, current_day, today_count, date_str, knull>>

\* the handler reports and lets the process end normally
HandlerNoExit == IF error = "none" THEN 1 ELSE 0
\* sys.exit(1)
HandlerExit == 1

\* except Exception as e: print, traceback.print_exc(), sys.exit(1)
ExcelExcept ==
    /\ script = "excel" /\ pc = "except"
    /\ diag' = diag \o <<"error examining: " \o error, "traceback">>
    /\ exit_code' = HandlerExit
    /\ pc' = "exit"
    /\ UNCHANGED <<input, run, prev, error, failed_at, steps, report, file_path, calls,
                   ws, er, ec, headers, row, current_day, today_count, date_str, knull>>

\* A statement of examine_excel other than those modelled as raising (a print to
\* a closed or narrow console, a library call) raises.
ExcelFault ==
    /\ script = "excel" /\ pc \in TrySteps \ {"call"}
    /\ Fail("OSError")
    /\ UNCHANGED <<input, run, prev, report, file_path, calls,
                   ws, er, ec, headers, row, current_day, today_count, date_str, knull>>

----------------------------------------------------------------------------
(* examine_excel(): load, dimensions, headers, sample rows.                *)

\* openpyxl.load_workbook(path): the error raised, "none" on success
LoadError(path) ==
    IF ~env.exists[path] THEN "FileNotFoundError"
    ELSE IF ~env.valid THEN "InvalidFileException"
    ELSE "none"

ExcelLoad ==
    /\ script = "excel" /\ pc = "call"
    /\ calls' = calls + 1
    /\ IF LoadError(file_path) # "none"
       THEN Fail(LoadError(file_path)) /\ UNCHANGED <<ws, er, ec>>
       ELSE /\ ws' = Active(wb)
            /\ er' = wb.sheets[Active(wb)].rows
            /\ ec' = wb.sheets[Active(wb)].cols
            /\ Ok("info", "load")
    /\ UNCHANGED <<input, run, prev, report, file_path,
                   headers, row, current_day, today_count, date_str, knull>>

\* The title and dimensions lines.
PrintInfo ==
    /\ script \in {"excel", "soccer"} /\ pc = "info"
    /\ report' = [report EXCEPT !.title = IF script = "excel" THEN Sheet.title ELSE "",
                                 !.rows = max_row, !.cols = max_column]
    /\ Ok("headers", "info")
    /\ UNCHANGED <<input, run, prev, file_path, calls,
                   ws, er, ec, headers, row, current_day, today_count, date_str, knull>>

HeaderStop == 50
SampleRowStop == 7
SampleColStop == 30
SoccerRowStop == 5
CheckHeaderStop == 50

\* The columns of the header listing.
HeaderCols ==
    IF script = "excel" THEN Range(1, Min(max_column + 1, HeaderStop))
    ELSE Range(1, max_column + 1)

\* headers = []; for col in ...: headers.append(ws.cell(1, col).value)
ReadHeaders ==
    /\ script \in {"excel", "soccer"} /\ pc = "headers"
    /\ headers' = [c \in HeaderCols |-> CellValue(Sheet, 1, c)]
    /\ er' = Max(er, 1)
    /\ ec' = Max(ec, Len(headers'))
    /\ report' = [report EXCEPT !.headers = headers']
    /\ Ok(IF script = "excel" THEN "samples" ELSE "mapping", "headers")
    /\ UNCHANGED <<input, run, prev, file_path, calls, ws,
                   row, current_day, today_count, date_str, knull>>

\* cell_value is not None and str(cell_value).strip()
NonBlank(v) == v.t # "none" /\ Strip(PyStr(v)) # <<>>

ExcelSampleRows == Range(2, Min(max_row + 1, SampleRowStop))
ExcelSampleCols == Range(1, Min(max_column + 1, SampleColStop))

\* The sample rows of examine_excel: per row, the columns printed.
ExcelSamples ==
    /\ script = "excel" /\ pc = "samples"
    /\ report' = [report EXCEPT !.samples =
                    [r \in ExcelSampleRows |->
                        [seen |-> ExcelSampleCols,
                         shown |-> {c \in ExcelSampleCols : NonBlank(CellValue(Sheet, r, c))}]]]
    /\ Ok("mapping", "samples")
    /\ UNCHANGED <<input, run, prev, file_path, calls,
                   ws, er, ec, headers, row, current_day, today_count, date_str, knull>>

----------------------------------------------------------------------------
(* The column mapping report of both scripts.                              *)

ExcelColumnMapping ==
    (2 :> "HomeTeam") @@ (3 :> "AwayTeam") @@ (4 :> "League") @@ (5 :> "Date/Time") @@
    (6 :> "HomeWin") @@ (7 :> "Draw") @@ (8 :> "AwayWin") @@ (18 :> "OverTwoGoals") @@
    (22 :> "OverThreeGoals") @@ (24 :> "OverFourGoals") @@ (34 :> "UnderTwoGoals") @@
    (38 :> "UnderThreeGoals")

SoccerColumnMapping ==
    (2 :> "HomeTeam") @@ (3 :> "AwayTeam") @@ (4 :> "League") @@ (5 :> "Date/Time") @@
    (6 :> "HomeWin (1x2_h)") @@ (7 :> "Draw (1x2_d)") @@ (8 :> "AwayWin (1x2_a)") @@
    (18 :> "OverTwoGoals (o_2.5)") @@ (22 :> "OverThreeGoals (o_3)") @@
    (24 :> "OverFourGoals (o_4)") @@ (34 :> "UnderTwoGoals (u_2.5)") @@
    (38 :> "UnderThreeGoals (u_3)")

column_mapping == IF script = "excel" THEN ExcelColumnMapping ELSE SoccerColumnMapping

\* The text printed for a header the headers list does not reach.
NoHeader(col) ==
    IF script = "excel" THEN Text(<<"N", "/", "A">>)
    ELSE Text(<<"O", "U", "T", " ", "O", "F", " ", "R", "A", "N", "G", "E">>)
ColName(col) == Text(<<"C", "o", "l">> \o Digits(col))

\* headers[col-1] without the length test
HeaderLookupUnguarded(hs, col, default) == ListGet(hs, col - 1)

\* headers[col-1] if col-1 < len(headers) else default
HeaderLookup(hs, col, default) ==
    IF col - 1 < Len(hs) THEN ListGet(hs, col - 1) ELSE [ok |-> TRUE, v |-> default]

\* for col_num, field_name in sorted(column_mapping.items())
MappingOrder(m) == Sorted(DOMAIN m)

SampleGuardAlways(mr) == TRUE

\* ... if ws.max_row >= 2 else "N/A"
SampleGuard(mr) == mr >= 2

\* One line of the report: the header lookup may raise, the sample is read
\* (and its cell created) only under the guard.
MappingLine(col) ==
    [col |-> col,
     field |-> column_mapping[col],
     header |-> HeaderLookup(headers, col, NoHeader(col)),
     sample |-> IF SampleGuard(max_row) THEN CellValue(Sheet, 2, col)
                ELSE Text(<<"N", "/", "A">>)]

MappingReport ==
    /\ script \in {"excel", "soccer"} /\ pc = "mapping"
    /\ \E ks \in {MappingOrder(column_mapping)} :
       \E bad \in {{i \in 1..Len(ks) : ~HeaderLookup(headers, ks[i], NoHeader(ks[i])).ok}} :
       \E n \in {IF bad = {} THEN Len(ks) ELSE (CHOOSE i \in bad : \A j \in bad : i <= j) - 1} :
           /\ report' = [report EXCEPT !.mapping =
                           [i \in 1..n |-> [MappingLine(ks[i]) EXCEPT !.header = @.v]]]
           /\ IF SampleGuard(max_row) /\ n >= 1
              THEN /\ er' = Max(er, 2)
                   /\ ec' = Max(ec, CHOOSE k \in {ks[i] : i \in 1..n} : \A j \in 1..n : ks[j] <= k)
              ELSE UNCHANGED <<er, ec>>
           /\ IF bad = {}
              THEN Ok(IF script = "excel" THEN "stats" ELSE "samples", "mapping")
              ELSE Fail("IndexError")
    /\ UNCHANGED <<input, run, prev, file_path, calls, ws,
                   headers, row, current_day, today_count, date_str, knull>>

----------------------------------------------------------------------------
(* The statistics and the "matches today" loop.                            *)

\* total_rows = ws.max_row - 1
ExcelStats ==
    /\ script = "excel" /\ pc = "stats"
    /\ report' = [report EXCEPT !.total = max_row - 1]
    /\ Ok("clock", "stats")
    /\ UNCHANGED <<input, run, prev, file_path, calls,
                   ws, er, ec, headers, row, current_day, today_count, date_str, knull>>

TodayCountKept == today_count
TodayCountInit == 0

\* today_count = 0; current_day = datetime.now().day
ReadClock ==
    /\ script \in {"excel", "soccer"} /\ pc = "clock"
    /\ today_count' = TodayCountInit
    /\ \E d \in Days : current_day' = d
    /\ row' = 2
    /\ Goto("today")
    /\ UNCHANGED <<input, run, prev, report, file_path, calls,
                   ws, er, ec, headers, date_str, knull>>

DateCol == 5

\* date_str.split('.')[0] only
ParseDayDotOnly(text) == PyInt(Split(text, ".")[1])

\* int(date_str.split('.')[0].split(' ')[0])
ParseDay(text) == PyInt(Split(Split(text, ".")[1], " ")[1])

\* no try/except around the parse
SwallowNothing(e) == e

\* except: pass
Swallow(e) == "none"

\* One pass of the loop body on the cell value v: the new count and the
\* exception that leaves the body ("none": none).
TodayBody(v, day, count) ==
    IF ~Truthy(v) THEN [count |-> count, raised |-> "none"]
    ELSE LET p == ParseDay(PyStr(v))
         IN  IF ~p.ok THEN [count |-> count, raised |-> Swallow("ValueError")]
             ELSE IF p.v = day THEN [count |-> count + 1, raised |-> "none"]
             ELSE [count |-> count, raised |-> "none"]

TodayIter ==
    /\ script \in {"excel", "soccer"} /\ pc = "today" /\ row <= max_row
    /\ LET v == CellValue(Sheet, row, DateCol)
           res == TodayBody(v, current_day, today_count)
       IN  /\ date_str' = IF Truthy(v) THEN Text(PyStr(v)) ELSE v
           /\ ec' = Max(ec, DateCol)
           /\ IF res.raised = "none"
              THEN today_count' = res.count /\ row' = row + 1 /\ Goto("today")
              ELSE Fail(res.raised) /\ UNCHANGED <<today_count, row>>
    /\ UNCHANGED <<input, run, prev, report, file_path, calls,
                   ws, er, headers, current_day, knull>>

TodayDone ==
    /\ script \in {"excel", "soccer"} /\ pc = "today" /\ row > max_row
    /\ Ok(IF script = "excel" THEN "summary" ELSE "stats", "today")
    /\ UNCHANGED <<input, run, prev, report, file_path, calls,
                   ws, er, ec, headers, row, current_day, today_count, date_str, knull>>

\* Matches for today ..., Total matches in file ...; examine_excel returns.
ExcelSummary ==
    /\ script = "excel" /\ pc = "summary"
    /\ report' = [report EXCEPT !.day = current_day, !.today = today_count]
    /\ Finish("summary")
    /\ UNCHANGED <<input, run, prev, file_path, calls,
                   ws, er, ec, headers, row, current_day, today_count, date_str, knull>>

----------------------------------------------------------------------------
(* examine_soccer.py.                                                      *)

\* wb = openpyxl.load_workbook("Resources/predictions.xlsx")
SoccerLoad ==
    /\ script = "soccer" /\ pc = "start"
    /\ IF LoadError(3) # "none" THEN Fail(LoadError(3)) ELSE Ok("sheet", "load")
    /\ UNCHANGED <<input, run, prev, report, file_path, calls,
                   ws, er, ec, headers, row, current_day, today_count, date_str, knull>>

\* ws = wb["soccer"]
SoccerGetSheet ==
    /\ script = "soccer" /\ pc = "sheet"
    /\ LET i == SheetByTitle(wb, "soccer")
       IN  IF i = 0
           THEN Fail("KeyError") /\ UNCHANGED <<ws, er, ec>>
           ELSE /\ ws' = i
                /\ er' = wb.sheets[i].rows
                /\ ec' = wb.sheets[i].cols
                /\ Goto("info")
    /\ UNCHANGED <<input, run, prev, report, file_path, calls,
                   headers, row, current_day, today_count, date_str, knull>>

KeyCols == {1, 2, 3, 4, 5, 6, 7, 8, 18, 22, 24, 34, 38}
SoccerSampleRows == Range(2, Min(max_row + 1, SoccerRowStop))

\* The sample rows of examine_soccer: the key columns within ws.max_column.
SoccerSamples ==
    /\ script = "soccer" /\ pc = "samples"
    /\ report' = [report EXCEPT !.samples =
                    [r \in SoccerSampleRows |->
                        [seen |-> KeyCols,
                         shown |-> {c \in KeyCols : c <= max_column}]]]
    /\ Ok("clock", "samples")
    /\ UNCHANGED <<input, run, prev, file_path, calls,
                   ws, er, ec, headers, row, current_day, today_count, date_str, knull>>

\* Total soccer matches in file, Matches for today
SoccerStats ==
    /\ script = "soccer" /\ pc = "stats"
    /\ report' = [report EXCEPT !.total = max_row - 1, !.day = current_day, !.today = today_count]
    /\ knull' = 1
    /\ Ok("nulls", "stats")
    /\ UNCHANGED <<input, run, prev, file_path, calls,
                   ws, er, ec, headers, row, current_day, today_count, date_str>>

NullCols == <<6, 7, 8, 18, 22, 34>>

\* x formatted with :.1f, in tenths, for x = n / m * 100: the nearest tenth,
\* a tie going to the even one.
RoundTenths(n, m) ==
    LET q == (1000 * n) \div m
        r == (1000 * n) % m
    IN  IF 2 * r > m \/ (2 * r = m /\ q % 2 = 1) THEN q + 1 ELSE q

\* null_count / ws.max_row * 100
PercentOfAllRows(n, m) ==
    IF m = 0 THEN [ok |-> FALSE, v |-> 0] ELSE [ok |-> TRUE, v |-> RoundTenths(n, m + 1)]

\* null_count / (ws.max_row - 1) * 100, m being ws.max_row - 1:
\* ok = FALSE stands for ZeroDivisionError.
Percent(n, m) ==
    IF m = 0 THEN [ok |-> FALSE, v |-> 0] ELSE [ok |-> TRUE, v |-> RoundTenths(n, m)]

\* One column of the null analysis.
SoccerNullCol ==
    /\ script = "soccer" /\ pc = "nulls" /\ knull <= Len(NullCols)
    /\ LET col == NullCols[knull]
           rows == Range(2, max_row + 1)
           null_count == Cardinality({r \in rows : CellValue(Sheet, r, col).t = "none"})
           name == HeaderLookup(headers, col, ColName(col))
           pct == Percent(null_count, max_row - 1)
       IN  /\ ec' = IF rows # {} THEN Max(ec, col) ELSE ec
           /\ IF ~name.ok THEN Fail("IndexError") /\ UNCHANGED <<report, knull>>
              ELSE IF ~pct.ok THEN Fail("ZeroDivisionError") /\ UNCHANGED <<report, knull>>
              ELSE /\ report' = [report EXCEPT !.nulls =
                                   Append(@, [col |-> col, name |-> name.v,
                                              count |-> null_count, pct |-> pct.v])]
                   /\ knull' = knull + 1
                   /\ Goto("nulls")
    /\ UNCHANGED <<input, run, prev, file_path, calls,
                   ws, er, headers, row, current_day, today_count, date_str>>

\* The conclusion lines; the script ends.
SoccerConclusion ==
    /\ script = "soccer" /\ pc = "nulls" /\ knull > Len(NullCols)
    /\ Finish("nulls")
    /\ UNCHANGED <<input, run, prev, report, file_path, calls,
                   ws, er, ec, headers, row, current_day, today_count, date_str, knull>>

----------------------------------------------------------------------------
(* check_worksheets.py.                                                    *)

\* wb = openpyxl.load_workbook(...); print(len(wb.worksheets))
CheckLoad ==
    /\ script = "check" /\ pc = "start"
    /\ IF LoadError(3) # "none"
       THEN Fail(LoadError(3)) /\ UNCHANGED <<report, ws>>
       ELSE /\ report' = [report EXCEPT !.nsheets = Len(wb.sheets), !.sheets = <<>>]
            /\ ws' = 1
            /\ Ok("sheets", "load")
    /\ UNCHANGED <<input, run, prev, file_path, calls,
                   er, ec, headers, row, current_day, today_count, date_str, knull>>

\* for idx, ws in enumerate(wb.worksheets): the sheet after sheet i
NextSheet(i) == i + 1

\* One sheet of the loop: title, rows, columns, the non-empty headers.
CheckSheet ==
    /\ script = "check" /\ pc = "sheets" /\ ws \in 1..Len(wb.sheets)
    /\ LET sh == wb.sheets[ws]
           mr == IF sh.rows = 0 THEN 1 ELSE sh.rows
           mc == IF sh.cols = 0 THEN 1 ELSE sh.cols
           cols == Range(1, Min(mc + 1, CheckHeaderStop))
           vals == [c \in cols |-> CellValue(sh, 1, c)]
           hs == SelectSeq(vals, Truthy)
       IN  /\ headers' = [i \in 1..Len(hs) |-> PyStr(hs[i])]
           /\ er' = mr
           /\ ec' = mc
           /\ report' = [report EXCEPT !.sheets =
                           Append(@, [idx |-> ws, title |-> sh.title, rows |-> mr, cols |-> mc,
                                      headers |-> headers'])]
    /\ ws' = NextSheet(ws)
    /\ Goto("sheets")
    /\ UNCHANGED <<input, run, prev, file_path, calls,
                   row, current_day, today_count, date_str, knull>>

CheckDone ==
    /\ script = "check" /\ pc = "sheets" /\ ws \notin 1..Len(wb.sheets)
    /\ Finish("sheets")
    /\ UNCHANGED <<input, run, prev, report, file_path, calls,
                   ws, er, ec, headers, row, current_day, today_count, date_str, knull>>

----------------------------------------------------------------------------
(* A second run of the same script on the same file: a new process, whose  *)
(* variables hold nothing until the script assigns them. A run that the    *)
(* environment broke (OSError) is not followed by a second one.            *)

Rerun ==
    /\ pc = "exit" /\ run < env.runs /\ error # "OSError"
    /\ run' = run + 1
    /\ prev' = [report |-> report, steps |-> steps, exit_code |-> exit_code, error |-> error]
    /\ pc' = "start"
    /\ error' = "none"
    /\ failed_at' = "none"
    /\ exit_code' = -1
    /\ diag' = <<>>
    /\ steps' = <<>>
    /\ report' = EmptyReport
    /\ UNCHANGED <<input, file_path, calls, ws, er, ec, headers,
                   row, current_day, today_count, date_str, knull>>

Next ==
    \/ ExcelMain
    \/ ExcelLoad
    \/ ExcelExcept
    \/ ExcelFault
    \/ PrintInfo
    \/ ReadHeaders
    \/ ExcelSamples
    \/ MappingReport
    \/ ExcelStats
    \/ ReadClock
    \/ TodayIter
    \/ TodayDone
    \/ ExcelSummary
    \/ SoccerLoad
    \/ SoccerGetSheet
    \/ SoccerSamples
    \/ SoccerStats
    \/ SoccerNullCol
    \/ SoccerConclusion
    \/ CheckLoad
    \/ CheckSheet
    \/ CheckDone
    \/ Rerun

Spec == Init /\ [][Next]_vars

----------------------------------------------------------------------------
(* Vocabulary of the properties.                                           *)

Elems(seq) == {seq[i] : i \in DOMAIN seq}
Floor1(n) == IF n = 0 THEN 1 ELSE n
Abs(n) == IF n < 0 THEN 0 - n ELSE n
Reporting == script \in {"excel", "soccer"}

\* The data rows the "today" loop has gone through.
Processed == IF ws = 0 \/ ~Reporting THEN {} ELSE 2..(row - 1)
DateCell(r) == CellValue(Sheet, r, DateCol)

\* The text before the first character of delims (all of it when there is none).
TokenBefore(s, delims) ==
    IF \E i \in 1..Len(s) : s[i] \in delims
    THEN SubSeq(s, 1, (CHOOSE i \in 1..Len(s) : s[i] \in delims /\ \A j \in 1..(i - 1) : s[j] \notin delims) - 1)
    ELSE s

\* An integer literal: optional surrounding whitespace, an optional sign, digits
\* with single underscores between them.
IntLiteral(t) ==
    \E i \in 1..Len(t) : \E j \in i..Len(t) :
        /\ \A k \in 1..Len(t) : (k < i \/ k > j) => IsSpace(t[k])
        /\ LET b == IF t[i] \in {"+", "-"} THEN i + 1 ELSE i
           IN  /\ b <= j
               /\ IsDigit(t[b]) /\ IsDigit(t[j])
               /\ \A k \in b..j : IsDigit(t[k]) \/ (t[k] = "_" /\ IsDigit(t[k + 1]))

\* The cell has a text whose token before the first of delims is an integer
\* equal to day.
DayMatches(v, day, delims) ==
    /\ v.t # "none"
    /\ LET p == PyInt(TokenBefore(PyStr(v), delims)) IN p.ok /\ p.v = day

\* The same with the whitespace before the token skipped.
DayMatchesSkipping(v, day, delims) ==
    /\ v.t # "none"
    /\ LET p == PyInt(TokenBefore(LStrip(PyStr(v)), delims)) IN p.ok /\ p.v = day

NonIntRows ==
    {r \in Processed :
        \/ DateCell(r).t = "none"
        \/ DateCell(r).t = "str" /\ ~IntLiteral(TokenBefore(DateCell(r).s, {".", " "}))}
RowsHolding(text) == {r \in Processed : DateCell(r) = Text(text)}

----------------------------------------------------------------------------
(* C1: in the "matches today" loop of both scripts, a date cell whose      *)
(* leading token is no integer (empty, "abc", a null cell) raises nothing  *)
(* out of the loop and is not counted; with current day 5 a cell "5.03"    *)
(* adds exactly one to the count and a cell "15.03" adds nothing.          *)
C1_TodayLoopSwallows ==
    /\ error # "ValueError"
    /\ (failed_at = "today" => error = "OSError")
    /\ today_count <= Cardinality(Processed \ NonIntRows)
    /\ current_day = 5 =>
         /\ today_count >= Cardinality(RowsHolding(<<"5", ".", "0", "3">>))
         /\ today_count <= Cardinality((Processed \ NonIntRows) \ RowsHolding(<<"1", "5", ".", "0", "3">>))

C1_Witness ==
    /\ pc = "exit" /\ exit_code = 0 /\ current_day = 5 /\ today_count = 1
    /\ RowsHolding(<<"a", "b", "c">>) # {}
    /\ RowsHolding(<<"5", ".", "0", "3">>) # {}

(* C2, as claimed: a record is counted exactly when the first token got by *)
(* splitting the text on "." and on any whitespace character (space, tab)  *)
(* is an integer equal to the current day. Read either way (with or        *)
(* without the leading whitespace skipped), the count lies between the     *)
(* rows both readings count and the rows either reading counts.            *)
C2_AsClaimed ==
    LET ws_delims == {".", " ", "\t"}
        both == {r \in Processed : DayMatches(DateCell(r), current_day, ws_delims)
                                    /\ DayMatchesSkipping(DateCell(r), current_day, ws_delims)}
        either == {r \in Processed : DayMatches(DateCell(r), current_day, ws_delims)
                                      \/ DayMatchesSkipping(DateCell(r), current_day, ws_delims)}
    IN  Cardinality(both) <= today_count /\ today_count <= Cardinality(either)

(* C2, amended: a record is counted exactly when the text before the first *)
(* "." or space character (a tab does not end the token) is an integer     *)
(* literal equal to the current day-of-month; nothing after the token,     *)
(* month and year included, has any influence.                             *)
C2_CountedIffLeadingDay ==
    today_count = Cardinality({r \in Processed : DayMatches(DateCell(r), current_day, {".", " "})})

C2_Witness ==
    /\ pc = "exit" /\ exit_code = 0 /\ current_day = 5 /\ today_count = 1
    /\ RowsHolding(<<"5", " ", "1">>) # {}

----------------------------------------------------------------------------
DocumentedCols == <<2, 3, 4, 5, 6, 7, 8, 18, 22, 24, 34, 38>>
\* home team, away team, league, date/time, home win, draw, away win,
\* over 2.5, over 3, over 4, under 2.5, under 3: as each script names them.
DocumentedFields ==
    IF script = "excel"
    THEN <<"HomeTeam", "AwayTeam", "League", "Date/Time", "HomeWin", "Draw", "AwayWin",
           "OverTwoGoals", "OverThreeGoals", "OverFourGoals", "UnderTwoGoals", "UnderThreeGoals">>
    ELSE <<"HomeTeam", "AwayTeam", "League", "Date/Time", "HomeWin (1x2_h)", "Draw (1x2_d)",
           "AwayWin (1x2_a)", "OverTwoGoals (o_2.5)", "OverThreeGoals (o_3)",
           "OverFourGoals (o_4)", "UnderTwoGoals (u_2.5)", "UnderThreeGoals (u_3)">>

(* C3: in both scripts the mapping has exactly the keys 2, 3, 4, 5, 6, 7,  *)
(* 8, 18, 22, 24, 34, 38 with the documented fields; the report visits     *)
(* each once, in ascending order, and nothing else; a mapped column beyond *)
(* the headers (outside the sheet's width) prints a placeholder and no     *)
(* column index raises an error.                                           *)
C3_MappingReport ==
    Reporting =>
        /\ DOMAIN column_mapping = Elems(DocumentedCols)
        /\ error # "IndexError"
        /\ (failed_at = "mapping" => error = "OSError")
        /\ "mapping" \in Elems(steps) =>
             /\ Len(report.mapping) = Len(DocumentedCols)
             /\ \A i \in 1..Len(report.mapping) :
                  LET line == report.mapping[i]
                  IN  /\ line.col = DocumentedCols[i]
                      /\ line.field = DocumentedFields[i]
                      /\ line.header = IF line.col <= Len(report.headers)
                                       THEN report.headers[line.col]
                                       ELSE NoHeader(line.col)

C3_Witness ==
    /\ Reporting /\ pc = "exit" /\ exit_code = 0
    /\ Sheet.cols = 20 /\ Len(report.mapping) = 12
    /\ report.mapping[8].header = HeaderText(18)
    /\ report.mapping[9].header = NoHeader(22)

(* C4, as claimed: every run on a workbook that is found and loads (and    *)
(* has the sheet the script asks for) ends with exit code 0, whatever the  *)
(* sheet holds, a header row alone included. A run the environment breaks  *)
(* (OSError) is not such a run.                                            *)
C4_AsClaimed ==
    (pc = "exit" /\ "load" \in Elems(steps) /\ ws # 0 /\ error # "OSError") => exit_code = 0

(* C5: in examine_excel.py's entry point, when the primary path and both   *)
(* fallbacks are absent the process prints a diagnostic, exits nonzero and *)
(* never calls examine_excel (nothing is opened or reported); when some    *)
(* path exists examine_excel is called exactly once, with a path that      *)
(* exists.                                                                 *)
C5_EntryPoint ==
    script = "excel" =>
        /\ calls <= 1
        /\ (calls = 1 => file_path \in Paths /\ env.exists[file_path])
        /\ (\A q \in Paths : ~env.exists[q]) =>
             /\ calls = 0 /\ ws = 0 /\ steps = <<>> /\ report = EmptyReport
             /\ pc \in {"start", "exit"}
             /\ pc = "exit" => exit_code # 0 /\ diag # <<>>
        /\ ((\E q \in Paths : env.exists[q]) /\ pc = "exit") => calls = 1

C5_Witness ==
    /\ script = "excel" /\ pc = "exit" /\ exit_code = 1
    /\ \A q \in Paths : ~env.exists[q]

(* C6: in examine_soccer.py's null analysis, for each checked column (6,   *)
(* 7, 8, 18, 22, 34) of a sheet with M >= 1 data rows of which N have a    *)
(* null cell in that column, the reported count is N and the reported      *)
(* percentage is N/M*100 to one decimal (within half a tenth of it); M is  *)
(* the number of rows below the header, 0 <= N <= M, 0.0 <= pct <= 100.0.  *)
C6_NullPercent ==
    (script = "soccer" /\ ws # 0) =>
        \A i \in 1..Len(report.nulls) :
            LET e == report.nulls[i]
                M == Sheet.rows - 1
                N == Cardinality({r \in 2..Sheet.rows : CellValue(Sheet, r, e.col) = None})
            IN  /\ e.col = NullCols[i]
                /\ M >= 1
                /\ e.count = N /\ 0 <= N /\ N <= M
                /\ 0 <= e.pct /\ e.pct <= 1000
                /\ 2 * Abs(e.pct * M - 1000 * N) <= M

C6_Witness ==
    /\ script = "soccer" /\ pc = "exit" /\ exit_code = 0
    /\ Sheet.rows = 7 /\ Len(report.nulls) = 6
    /\ report.nulls[1].count = 1 /\ report.nulls[1].pct = 167
    /\ report.nulls[3].pct = 1000

\* The reported values other than the "matches today" count and its day.
Stable(r) == [r EXCEPT !.today = 0, !.day = 0]

ExcelSections == <<"load", "info", "headers", "samples", "mapping", "stats", "today", "summary">>
SectionsBefore(p) ==
    CASE p = "call" -> 0 [] p = "info" -> 1 [] p = "headers" -> 2 [] p = "samples" -> 3
      [] p = "mapping" -> 4 [] p = "stats" -> 5 [] p \in {"clock", "today"} -> 6
      [] p = "summary" -> 7 [] OTHER -> 8

(* C8: in examine_excel.py, when opening or examining the workbook raises  *)
(* at any step, the error message and a trace are reported, no later       *)
(* section is performed and the exit code is nonzero; exit code 0 is       *)
(* reached only when every section completed.                              *)
C8_HandlerExits ==
    (script = "excel" /\ pc = "exit" /\ calls = 1) =>
        /\ error # "none" =>
             /\ exit_code \notin {0, -1}
             /\ ("error examining: " \o error) \in Elems(diag)
             /\ "traceback" \in Elems(diag)
             /\ steps = SubSeq(ExcelSections, 1, SectionsBefore(failed_at))
        /\ exit_code = 0 => error = "none" /\ steps = ExcelSections

C8_Witness ==
    /\ script = "excel" /\ pc = "exit" /\ exit_code = 1
    /\ error = "OSError" /\ failed_at = "mapping"
    /\ steps = <<"load", "info", "headers", "samples">>

(* C9, as claimed: every sheet is reported once, in workbook order, with   *)
(* its populated row and column counts, and the reported total of data     *)
(* rows is the populated row count minus one, also for a sheet with no     *)
(* populated cell.                                                         *)
C9_AsClaimed ==
    /\ script = "check" =>
         /\ Len(report.sheets) <= Len(wb.sheets)
         /\ \A i \in 1..Len(report.sheets) :
              /\ report.sheets[i].title = wb.sheets[i].title
              /\ report.sheets[i].rows = wb.sheets[i].rows
              /\ report.sheets[i].cols = wb.sheets[i].cols
         /\ pc = "exit" /\ exit_code = 0 => Len(report.sheets) = Len(wb.sheets)
    /\ (Reporting /\ "stats" \in Elems(steps)) => report.total = Sheet.rows - 1

(* C9, amended: every sheet is reported once, in workbook order, with its  *)
(* populated row and column counts, a sheet with no populated cell being   *)
(* reported as 1 row and 1 column; the reported total of data rows is the  *)
(* populated row count minus one, and 0 for a sheet with no populated cell.*)
C9_Extents ==
    /\ script = "check" =>
         /\ Len(report.sheets) <= Len(wb.sheets)
         /\ \A i \in 1..Len(report.sheets) :
              /\ report.sheets[i].idx = i
              /\ report.sheets[i].title = wb.sheets[i].title
              /\ report.sheets[i].rows = Floor1(wb.sheets[i].rows)
              /\ report.sheets[i].cols = Floor1(wb.sheets[i].cols)
         /\ pc = "exit" /\ exit_code = 0 => Len(report.sheets) = Len(wb.sheets)
    /\ (Reporting /\ "info" \in Elems(steps)) =>
         report.rows = Floor1(Sheet.rows) /\ report.cols = Floor1(Sheet.cols)
    /\ (Reporting /\ "stats" \in Elems(steps)) => report.total = Floor1(Sheet.rows) - 1

C9_Witness ==
    /\ script = "check" /\ pc = "exit" /\ exit_code = 0
    /\ Len(wb.sheets) = 2 /\ wb.sheets[1].rows = 0 /\ wb.sheets[2].rows = 3
    /\ report.sheets[1].rows = 1 /\ report.sheets[2].rows = 3

(* C10, as claimed: in examine_excel.py the header listing covers columns  *)
(* 1..min(C, 50), each sample row shows the non-blank cells among columns  *)
(* 1..min(C, 30), and the sample rows are rows 2..min(R, 6).               *)
C10_AsClaimed ==
    (script = "excel" /\ ws # 0) =>
        LET C == Floor1(Sheet.cols)
            R == Floor1(Sheet.rows)
        IN  /\ "headers" \in Elems(steps) => DOMAIN report.headers = 1..Min(C, 50)
            /\ "samples" \in Elems(steps) =>
                 /\ DOMAIN report.samples = 2..Min(R, 6)
                 /\ \A r \in DOMAIN report.samples :
                      report.samples[r].shown =
                          {c \in 1..Min(C, 30) : NonBlank(CellValue(Sheet, r, c))}

====
